---- MODULE Spec2Model ----
(***************************************************************************)
(* A model of the tutoring dialogue engine of src/app.py: the /chat turn   *)
(* handler (LESSON_FLOW and QNA), /chat/reset, /chat/delete_last_turn and  *)
(* enrolment, for one learner on one lesson; the same handler as two       *)
(* overlapping requests; the chapter compiler (save_chapter,               *)
(* update_chapter) for one author; and the course's structure              *)
(* (delete_chapter, reorder_chapters, toggle_publish_course,               *)
(* update_publish_status).                                                 *)
(*                                                                         *)
(* Python text is modelled as a tuple of one-character strings, so that    *)
(* strip(), upper(), startswith(), split() and the "in" substring test are *)
(* computed as Python computes them.  Python's None is the value None.     *)
(* A dict is a function from its keys; a key that was never set is not in  *)
(* its DOMAIN.                                                             *)
(***************************************************************************)
EXTENDS Integers, Sequences, FiniteSets, TLC

\* ------------------------------------------------------------------ bounds

\* The longest step sequence of a lesson.
MaxSteps == 2

\* The longest stored transcript; a turn that would store a longer one is
\* not taken (the transcript can always be emptied by delete_last_turn).
MaxHist == 3

\* The most chapters the author's course holds where the compiler is followed
\* with all its inputs.
MaxLessons == 1

\* The most chapters the course holds where its chapters are added, deleted
\* and reordered.
MaxChapters == 2

\* ------------------------------------------------------------------ text

\* Python's None (a marker that is no text of the model).
None == <<"None">>

LowerLetters ==
    <<"a","b","c","d","e","f","g","h","i","j","k","l","m","n","o","p","q","r","s","t","u",
      "v","w","x","y","z">>

UpperLetters ==
    <<"A","B","C","D","E","F","G","H","I","J","K","L","M","N","O","P","Q","R","S","T","U",
      "V","W","X","Y","Z">>

\* The characters str.strip() removes.
Whitespace == {" ", "\t", "\n", "\r"}

UpperChar(c) ==
    IF \E i \in DOMAIN LowerLetters : LowerLetters[i] = c
    THEN UpperLetters[CHOOSE i \in DOMAIN LowerLetters : LowerLetters[i] = c]
    ELSE c

\* str.upper()
Upper(s) == [i \in DOMAIN s |-> UpperChar(s[i])]

RECURSIVE LStrip(_)
\* str.lstrip()
LStrip(s) ==
    IF s # <<>> /\ Head(s) \in Whitespace THEN LStrip(Tail(s)) ELSE s

RECURSIVE RStrip(_)
\* str.rstrip()
RStrip(s) ==
    IF s # <<>> /\ s[Len(s)] \in Whitespace THEN RStrip(SubSeq(s, 1, Len(s) - 1)) ELSE s

\* str.strip()
Strip(s) == RStrip(LStrip(s))

\* str.startswith(prefix)
StartsWith(s, prefix) ==
    Len(s) >= Len(prefix) /\ SubSeq(s, 1, Len(prefix)) = prefix

\* sub in s
Contains(s, sub) ==
    \E i \in 0..(Len(s) - Len(sub)) : SubSeq(s, i + 1, i + Len(sub)) = sub

\* The positions of the character c in s.
Positions(s, c) == {i \in DOMAIN s : s[i] = c}

Min(S) == CHOOSE x \in S : \A y \in S : x <= y

\* s.split('"') has a second element iff s holds a double quote.
SplitHasSecond(s) == Positions(s, "\"") # {}

\* s.split('"')[1]: the text between the first double quote and the next one
\* (or the end of s).
SplitSecond(s) ==
    LET q     == Positions(s, "\"")
        first == Min(q)
        rest  == {i \in q : i > first}
        stop  == IF rest = {} THEN Len(s) + 1 ELSE Min(rest)
    IN  SubSeq(s, first + 1, stop - 1)

\* Python truthiness of an optional text: None and "" are falsy.
Truthy(x) == x # None /\ x # <<>>

\* dict.get(key, default)
Get(d, key, default) == IF key \in DOMAIN d THEN d[key] ELSE default

\* d[key] = value
Put(d, key, value) == (key :> value) @@ d

\* {}
EmptyDict == [k \in {} |-> None]

\* ------------------------------------------------------------ fixed texts

FallbackEmpty ==
    <<"L","e","t","'","s"," ","t","r","y"," ","t","h","a","t"," ","a","n","o","t","h","e",
      "r"," ","w","a","y",".">>

FallbackError ==
    <<"I"," ","s","e","e","m"," ","t","o"," ","b","e"," ","h","a","v","i","n","g"," ","a",
      " ","l","i","t","t","l","e"," ","t","r","o","u","b","l","e"," ","t","h","i","n","k",
      "i","n","g","."," ","C","o","u","l","d"," ","y","o","u"," ","t","r","y"," ","a","g",
      "a","i","n","?">>

FeedbackCorrect ==
    <<"C","o","r","r","e","c","t","!"," ","G","r","e","a","t"," ","j","o","b",".">>

LessonEndText ==
    <<"C","o","n","g","r","a","t","u","l","a","t","i","o","n","s","!"," ","Y","o","u"," ",
      "h","a","v","e"," ","c","o","m","p","l","e","t","e","d"," ","t","h","i","s"," ","c",
      "h","a","p","t","e","r",".">>

RetrievePrefix ==
    <<"[","R","E","T","R","I","E","V","E","_","I","M","A","G","E",":">>

ImageNotFoundText ==
    <<"I"," ","f","o","u","n","d"," ","a"," ","m","e","n","t","i","o","n"," ","o","f"," ",
      "t","h","a","t"," ","i","m","a","g","e",","," ","b","u","t"," ","I"," ","c","o","u",
      "l","d","n","'","t"," ","r","e","t","r","i","e","v","e"," ","t","h","e"," ","p","i",
      "c","t","u","r","e","."," ","S","o","r","r","y"," ","a","b","o","u","t"," ","t","h",
      "a","t",".">>

ImageTroubleText ==
    <<"I"," ","h","a","d"," ","a"," ","l","i","t","t","l","e"," ","t","r","o","u","b","l",
      "e"," ","r","e","t","r","i","e","v","i","n","g"," ","t","h","a","t"," ","i","m","a",
      "g","e","."," ","P","l","e","a","s","e"," ","t","r","y"," ","a","s","k","i","n","g",
      " ","i","n"," ","a"," ","d","i","f","f","e","r","e","n","t"," ","w","a","y",".">>

ImageFoundPrefix ==
    <<"O","f"," ","c","o","u","r","s","e",","," ","h","e","r","e"," ","i","s"," ","t","h",
      "e"," ","i","m","a","g","e"," ","o","f"," ","'">>

ImageFoundSuffix == <<"'",":">>

\* The literal the short-answer grading looks for.
CorrectWord == <<"C","O","R","R","E","C","T">>

\* The default hint context when no CONTENT step precedes the question.
LetsReview == <<"Let's review.">>

\* -------------------------------------------------- the oracle's replies

ReplyCorrect == <<"C","O","R","R","E","C","T">>

ReplyIncorrect == <<"I","N","C","O","R","R","E","C","T">>

ReplyLowerCorrect == <<"c","o","r","r","e","c","t">>

ReplyPlain == <<"O","k","a","y",".">>

\* An image-retrieval tag naming the alt text of the lesson's image.
ReplyTagCat ==
    <<" ","[","R","E","T","R","I","E","V","E","_","I","M","A","G","E",":"," ","\"","c","a",
      "t","\"","]">>

\* An image-retrieval tag naming an alt text no step has.
ReplyTagDog ==
    <<"[","R","E","T","R","I","E","V","E","_","I","M","A","G","E",":"," ","\"","d","o","g",
      "\"","]">>

\* An image-retrieval tag without the quotes the handler splits on.
ReplyTagBare ==
    <<"[","R","E","T","R","I","E","V","E","_","I","M","A","G","E",":"," ","c","a","t","]">>

ReplyTexts ==
    {<<>>, ReplyCorrect, ReplyIncorrect, ReplyLowerCorrect, ReplyPlain,
     ReplyTagCat, ReplyTagDog, ReplyTagBare}

\* What model.generate_content(prompt) does: it raises, or returns a response
\* whose text may be empty.
Raised == [kind |-> "raise", text |-> <<>>]

Replied(t) == [kind |-> "text", text |-> t]

\* No oracle call was made.
NoCall == [kind |-> "none", text |-> <<>>]

OracleOutcomes == {Raised} \cup {Replied(t) : t \in ReplyTexts}

\* The outcomes of a call whose reply the handler only passes on as text.
TutorOutcomes == {Raised, Replied(<<>>), Replied(ReplyPlain)}

\* ---------------------------------------------------------------- lessons

AltCat == <<"c","a","t">>

UrlCat ==
    <<"/","s","t","a","t","i","c","/","u","p","l","o","a","d","s","/","c","a","t",".","p",
      "n","g">>

\* A CONTENT step's text is the list of its non-empty paragraphs (the pieces a
\* blank line separates): the handler never looks inside the text.
ContentSteps ==
    {[type |-> "CONTENT", text |-> t] :
        t \in {<<"Para A">>, <<"Para A", "Para B">>, <<"Para A", "Para B", "Para C">>}}

\* The CONTENT step of the lessons of Spec: "Para A\n\nPara B".
ContentStep == [type |-> "CONTENT", text |-> <<"Para A", "Para B">>]

\* A MEDIA step before and after an upload was attached to it.
MediaSteps ==
    {[type |-> "MEDIA", alt_text |-> AltCat],
     [type |-> "MEDIA", alt_text |-> AltCat, media_url |-> UrlCat]}

\* The correct_answer values of the QUESTION_MCQ steps of the model.
CorrectAnswers == {<<>>, <<"B">>, <<" ", "b">>, <<"a", " ">>, <<"b", "b">>}

\* QUESTION_MCQ steps; the parser's output may lack the correct_answer key.
McqSteps ==
    {[type |-> "QUESTION_MCQ", question |-> "q"]}
    \cup {[type |-> "QUESTION_MCQ", question |-> "q", correct_answer |-> c] :
             c \in CorrectAnswers}

\* The QUESTION_MCQ step of the lessons of Spec.
McqStep == [type |-> "QUESTION_MCQ", question |-> "q", correct_answer |-> <<"B">>]

SaSteps == {[type |-> "QUESTION_SA", question |-> "q", keywords |-> <<"k1", "k2">>]}

Steps == {ContentStep} \cup MediaSteps \cup {McqStep} \cup SaSteps

RECURSIVE SeqsUpTo(_, _)
\* The sequences over S of length at most n.
SeqsUpTo(S, n) ==
    IF n = 0 THEN {<<>>}
    ELSE LET shorter == SeqsUpTo(S, n - 1)
         IN  shorter \cup {Append(s, x) : s \in {t \in shorter : Len(t) = n - 1}, x \in S}

\* json.loads(lesson.parsed_json)['steps']
Lessons == SeqsUpTo(Steps, MaxSteps)

\* Lessons of CONTENT steps of one to three paragraphs and short-answer questions.
ContentLessons == SeqsUpTo(ContentSteps \cup SaSteps, MaxSteps)

\* One-step lessons that hold a question of every correct_answer.
McqLessons == {<<m>> : m \in McqSteps}

\* data.get('user_input'): missing, empty, blank, and answers in several spellings.
Answers ==
    {None, <<>>, <<" ">>, <<"b">>, <<" ", "B", " ">>, <<"a">>, <<"B", "b">>, <<"b", " ", "b">>}

\* The answers of a turn that grades no QUESTION_MCQ step: there the handler
\* only tests whether user_input is truthy.
PlainAnswers == {None, <<"b">>}

\* The replies to a QNA prompt: the handler passes a reply on, or reads it as
\* an image-retrieval tag.
QnaOutcomes ==
    {Raised, Replied(<<>>), Replied(ReplyPlain), Replied(ReplyTagCat), Replied(ReplyTagDog),
     Replied(ReplyTagBare)}

RequestTypes == {"LESSON_FLOW", "QNA"}

\* Lesson.raw_script: two scripts with text, the empty script and a script of
\* blank lines only (update_chapter stores whatever the form holds).
ScriptA == <<"a">>

ScriptB == <<"b">>

EmptyScript == <<>>

BlankScript == <<" ", "\n", "\n", " ">>

RawScripts == {ScriptA, EmptyScript, BlankScript}

\* ------------------------------------------------------------------ state

VARIABLES
    steps,                \* lesson_data['steps'], decoded from Lesson.parsed_json
    raw_script,           \* Lesson.raw_script of the learner's lesson
    enrolled,             \* an Enrollment row of the learner for the lesson's course exists
    has_record,           \* the ChatHistory row of (enrollment, lesson) exists
    current_step_index,   \* ChatHistory.current_step_index (column default 0)
    history_json,         \* ChatHistory.history_json: the roles of the stored transcript
    response_data,        \* the JSON body of the last response (empty for an error page)
    last_turn,            \* what the last request was and did (an observation, not program state)
    is_creator,           \* course.creator.id == current_user.id
    last_completed_chapter_number,   \* Enrollment.last_completed_chapter_number (default 0)
    completed_at,         \* Enrollment.completed_at (default None)
    requests,             \* the /chat requests in flight: what each has read so far
    course_lessons,       \* the Lesson rows of the author's course, in the order they were added
    is_published,         \* Course.is_published of the author's course (default False)
    last_edit             \* what the author's last submission was (an observation)

\* The learner's dialogue with the lesson.
learner_vars ==
    <<steps, raw_script, enrolled, has_record, current_step_index, history_json, response_data,
      last_turn>>

\* The learner's relation to the course: its creator, or the Enrollment's progress.
enrollment_vars == <<is_creator, last_completed_chapter_number, completed_at>>

\* The author's course.
author_vars == <<course_lessons, is_published, last_edit>>

vars ==
    <<steps, raw_script, enrolled, has_record, current_step_index, history_json, response_data, last_turn,
      is_creator, last_completed_chapter_number, completed_at, requests, course_lessons,
      is_published, last_edit>>

\* ------------------------------------------------------- observation record

NoPrompt == [template |-> "none", arg |-> <<>>]

NotGraded == [step |-> -1, verdict |-> "none", answer |-> None, oracle |-> NoCall]

Graded(q, is_correct, user_input, grader_out) ==
    [step    |-> q,
     verdict |-> IF is_correct THEN "CORRECT" ELSE "INCORRECT",
     answer  |-> user_input,
     oracle  |-> grader_out]

\* op: the endpoint; status: the HTTP status; before: the stored cursor when the
\* request arrived; graded: the grading the turn ran; prompt: the tutor prompt
\* the turn sent, tutor: the outcome of that call.
Turn(op, request_type, status, before, graded, prompt, tutor) ==
    [op |-> op, request_type |-> request_type, status |-> status, before |-> before,
     graded |-> graded, prompt |-> prompt, tutor |-> tutor]

\* ---------------------------------------------------------------- helpers

\* A mutation of get_tutor_response: an empty reply is passed on as it is.
get_tutor_response_passes_empty(out) ==
    IF out.kind = "raise" THEN FallbackError ELSE out.text

\* A mutation of get_tutor_response: a failed call answers with the grader's
\* negative word.
get_tutor_response_negative(out) ==
    IF out.kind = "raise" THEN ReplyIncorrect
    ELSE IF out.text # <<>> THEN out.text ELSE ReplyIncorrect

\* get_tutor_response: the reply's text, or a fixed sentence when the reply is
\* empty or the call raised.
get_tutor_response(out) ==
    IF out.kind = "raise" THEN FallbackError
    ELSE IF out.text # <<>> THEN out.text ELSE FallbackEmpty

\* lesson_data['steps'][i] raises IndexError (the handler only uses i >= 0).
IndexError(i) == i >= Len(steps)

\* lesson_data['steps'][i], for an i in range.
StepAt(i) == steps[i + 1]

\* step.get('type') in ['QUESTION_MCQ', 'QUESTION_SA']
is_question(step) == step.type \in {"QUESTION_MCQ", "QUESTION_SA"}

\* A mutation of needs_grading: short answers are let through ungraded.
needs_grading_mcq_only(prev_step) == prev_step.type = "QUESTION_MCQ"

\* Whether the turn grades the learner's input against prev_step.
needs_grading(prev_step) == prev_step.type \in {"QUESTION_MCQ", "QUESTION_SA"}

\* A mutation of grade_mcq: the two sides are compared without strip().
grade_mcq_unstripped(user_input, prev_step) ==
    /\ Truthy(user_input)
    /\ Upper(user_input) = Upper(Get(prev_step, "correct_answer", <<>>))

\* The QUESTION_MCQ grading of chat.
grade_mcq(user_input, prev_step) ==
    /\ Truthy(user_input)
    /\ Upper(Strip(user_input)) = Upper(Strip(Get(prev_step, "correct_answer", <<>>)))

\* The QUESTION_SA grading of chat, on the outcome of the grader's oracle call.
grade_sa(grader_out) == Contains(Upper(get_tutor_response(grader_out)), CorrectWord)

RECURSIVE ContentBefore(_)
\* The texts of the CONTENT steps among the first n steps, joined in order.
ContentBefore(n) ==
    IF n = 0 THEN <<>>
    ELSE ContentBefore(n - 1) \o (IF steps[n].type = "CONTENT" THEN steps[n].text ELSE <<>>)

\* relevant_content of the hint: the CONTENT text before the question step
\* step_index - 1, or "Let's review." when there is none.
relevant_content(step_index) ==
    IF ContentBefore(step_index - 1) # <<>> THEN ContentBefore(step_index - 1) ELSE LetsReview

\* A mutation of qna_next_step: a QNA turn advances like a lesson turn.
qna_next_step_advances(step_index) == step_index + 1

\* response_data['next_step'] of a QNA turn.
qna_next_step(step_index) == step_index

\* response_data['next_step'] after an incorrect answer: back to the question step.
retry_next_step(step_index) == step_index - 1

\* A mutation of skip_next_step: the skip forgets to advance.
skip_next_step_stays(step_index) == step_index

\* response_data['next_step'] of a MEDIA step that has no media_url.
skip_next_step(step_index) == step_index + 1

\* A mutation of default_next_step: the step is shown again.
default_next_step_stays(step_index) == step_index

\* response_data['next_step'] when no branch has set it.
default_next_step(step_index) == step_index + 1

\* The first media_url among the MEDIA steps whose alt_text is alt, or None.
find_media_url(alt) ==
    LET hits == {i \in DOMAIN steps :
                    steps[i].type = "MEDIA" /\ Get(steps[i], "alt_text", None) = alt}
    IN  IF hits = {} THEN None ELSE Get(steps[Min(hits)], "media_url", None)

\* A mutation of commit_column: the UPDATE sets the column whether or not the
\* request changed it.
commit_column_always(stored, loaded, value) == value

\* What db.session.commit() stores in a column of a row the request loaded and
\* then assigned: the flush compares the assigned value with the loaded one and
\* its UPDATE sets only the columns that differ, so a column assigned the value
\* it was loaded with keeps whatever the database holds.
commit_column(stored, loaded, value) == IF value # loaded THEN value ELSE stored

\* A mutation of reset_step_index: the reset leaves the cursor where it is.
reset_step_index_keeps(step_index) == step_index

\* history_record.current_step_index = 0
reset_step_index(step_index) == 0

\* ------------------------------------------------------------------- Init

\* Lesson.chapter_number of the learner's lesson: the first chapter of its
\* course, which is also the last one.
chapter_number == 1

\* The callers whose /chat requests may overlap.
Requesters == {1, 2}

\* A request that has not arrived; origin is the stored cursor when the
\* requests were issued.
NoRequest(origin) ==
    [pc |-> "idle", request_type |-> "none", user_input |-> None, step_index |-> 0,
     chat_history |-> <<>>, next_step |-> 0, stale |-> FALSE, origin |-> origin]

\* The author has submitted nothing.
NoEdit ==
    [op |-> "none", result |-> "none", lesson |-> 0, title |-> <<>>, script |-> <<>>,
     media_urls |-> <<>>, parsed |-> <<>>]

\* The lesson's script has text; no progress of the Enrollment, no request in
\* flight, no chapter of the author.
InitRest ==
    /\ raw_script = ScriptA
    /\ last_completed_chapter_number = 0
    /\ completed_at = None
    /\ requests = [p \in Requesters |-> NoRequest(0)]
    /\ course_lessons = <<>>
    /\ is_published = FALSE
    /\ last_edit = NoEdit

\* A lesson has been saved and the learner has not contacted it.
Init ==
    /\ steps \in Lessons
    /\ enrolled = FALSE
    /\ has_record = FALSE
    /\ current_step_index = 0
    /\ history_json = <<>>
    /\ response_data = EmptyDict
    /\ last_turn = Turn("none", "none", 200, 0, NotGraded, NoPrompt, NoCall)
    /\ is_creator \in BOOLEAN
    /\ InitRest

\* ------------------------------------------------------------ /course/enroll

\* enroll_in_course, for a learner who is not the course's creator and can reach
\* the course (it is published, or the share link matches): the Enrollment row
\* is added with its column defaults.  The handler's other paths (404, "You
\* cannot enroll in your own course", "already enrolled") change nothing.
enroll_in_course ==
    /\ ~is_creator
    /\ ~enrolled
    /\ enrolled' = TRUE
    /\ last_completed_chapter_number' = 0
    /\ completed_at' = None
    /\ UNCHANGED <<steps, raw_script, has_record, current_step_index, history_json,
                   response_data, last_turn, is_creator, requests, author_vars>>

\* --------------------------------------------------------------------- /chat

\* The request ends in an error page: abort(403), or the 500 of an uncaught
\* IndexError.  The ChatHistory row chat created and committed stays.
ChatFails(status, request_type, created) ==
    /\ has_record' = (has_record \/ created)
    /\ response_data' = EmptyDict
    /\ last_turn' = Turn("chat", request_type, status, current_step_index,
                         NotGraded, NoPrompt, NoCall)
    /\ UNCHANGED <<steps, raw_script, enrolled, current_step_index, history_json>>

\* history_record.history_json, history_record.current_step_index and the
\* commit, then jsonify(response_data).
ChatSaves(chat_history, response, turn) ==
    /\ Len(chat_history) <= MaxHist
    /\ has_record' = TRUE
    /\ history_json' = chat_history   \* always longer than the transcript loaded
    /\ current_step_index' = commit_column(current_step_index, turn.before,
                                           response["next_step"])
    /\ response_data' = response
    /\ last_turn' = turn
    /\ UNCHANGED <<steps, raw_script, enrolled>>

\* "Centralized history saving and response preparation".
ChatFinishes(chat_history, response, model_response_text, turn) ==
    LET with_text == IF Truthy(model_response_text)
                     THEN Append(chat_history, "model") ELSE chat_history
        with_fb   == IF "feedback" \in DOMAIN response
                     THEN Append(with_text, "model") ELSE with_text
        resp      == IF Truthy(model_response_text)
                     THEN Put(response, "tutor_text", model_response_text) ELSE response
    IN  ChatSaves(with_fb, resp, turn)

\* request_type == 'QNA'
chat_qna(user_input, chat_history, step_index, tutor_out) ==
    LET ai_response == get_tutor_response(tutor_out)
        is_tag      == StartsWith(Strip(ai_response), RetrievePrefix)
        alt         == SplitSecond(ai_response)
        found_url   == find_media_url(alt)
        text        == IF ~is_tag THEN ai_response
                       ELSE IF ~SplitHasSecond(ai_response) THEN ImageTroubleText
                       ELSE IF Truthy(found_url)
                            THEN ImageFoundPrefix \o alt \o ImageFoundSuffix
                            ELSE ImageNotFoundText
        r0          == IF is_tag /\ SplitHasSecond(ai_response) /\ Truthy(found_url)
                       THEN Put(EmptyDict, "media_url", found_url) ELSE EmptyDict
        r1          == Put(r0, "is_qna_response", TRUE)
        r2          == Put(r1, "next_step", qna_next_step(step_index))
    IN  ChatFinishes(chat_history, r2, text,
                     Turn("chat", "QNA", 200, step_index, NotGraded,
                          [template |-> "QNA", arg |-> raw_script], tutor_out))

\* "2. Process the current step" and "3. Determine the next step index".
chat_process(chat_history, step_index, feedback, graded, tutor_out) ==
    LET r0 == IF feedback THEN Put(EmptyDict, "feedback", FeedbackCorrect) ELSE EmptyDict
        current_step == StepAt(step_index)
        reply == get_tutor_response(tutor_out)
        done(r, text, prompt, out) ==
            ChatFinishes(chat_history,
                         IF "next_step" \in DOMAIN r THEN r
                         ELSE Put(r, "next_step", default_next_step(step_index)),
                         text,
                         Turn("chat", "LESSON_FLOW", 200, step_index, graded, prompt, out))
    IN  IF step_index >= Len(steps)
        THEN done(Put(r0, "is_lesson_end", TRUE), LessonEndText, NoPrompt, NoCall)
        ELSE CASE current_step.type = "CONTENT" ->
                    done(r0, reply,
                         [template |-> IF feedback THEN "FEEDBACK_AND_PROCEED" ELSE "CONTENT",
                          arg |-> Get(current_step, "text", <<>>)],
                         tutor_out)
               [] current_step.type = "MEDIA" ->
                    IF ~Truthy(Get(current_step, "media_url", None))
                    THEN \* the skip: only the cursor is stored
                         /\ has_record' = TRUE
                         /\ current_step_index' = skip_next_step(step_index)
                         /\ response_data' = Put(r0, "next_step", skip_next_step(step_index))
                         /\ last_turn' = Turn("chat", "LESSON_FLOW", 200, step_index,
                                              graded, NoPrompt, NoCall)
                         /\ UNCHANGED <<steps, raw_script, enrolled, history_json>>
                    ELSE done(Put(r0, "media_url", current_step.media_url), reply,
                              [template |-> "MEDIA",
                               arg |-> Get(current_step, "alt_text", <<>>)],
                              tutor_out)
               [] is_question(current_step) ->
                    done(Put(r0, "question", current_step), reply,
                         [template |-> "QUESTION", arg |-> <<>>], tutor_out)

\* "1. Check if we need to grade a previous answer", then the rest of the turn.
chat_lesson_flow(user_input, chat_history, step_index, grader_out, tutor_out) ==
    IF step_index > 0 /\ IndexError(step_index - 1)
    THEN ChatFails(500, "LESSON_FLOW", TRUE)
    ELSE IF step_index > 0 /\ needs_grading(StepAt(step_index - 1))
    THEN LET prev_step  == StepAt(step_index - 1)
             is_correct == IF prev_step.type = "QUESTION_MCQ"
                           THEN grade_mcq(user_input, prev_step)
                           ELSE grade_sa(grader_out)
             graded     == Graded(step_index - 1, is_correct, user_input,
                                  IF prev_step.type = "QUESTION_SA" THEN grader_out
                                  ELSE NoCall)
             hint       == get_tutor_response(tutor_out)
         IN  IF is_correct
             THEN chat_process(chat_history, step_index, TRUE, graded, tutor_out)
             ELSE ChatSaves(Append(chat_history, "model"),
                            Put(Put(EmptyDict, "next_step", retry_next_step(step_index)),
                                "tutor_text", hint),
                            Turn("chat", "LESSON_FLOW", 200, step_index, graded,
                                 [template |-> "RETRY", arg |-> relevant_content(step_index)],
                                 tutor_out))
    ELSE chat_process(chat_history, step_index, FALSE, NotGraded, tutor_out)

\* The /chat handler: one turn of the learner.
chat(user_input, request_type, grader_out, tutor_out) ==
    IF ~enrolled
    THEN ChatFails(403, request_type, FALSE)
    ELSE LET step_index   == current_step_index
             chat_history == IF Truthy(user_input)
                             THEN Append(history_json, "user") ELSE history_json
         IN  IF request_type = "QNA"
             THEN chat_qna(user_input, chat_history, step_index, tutor_out)
             ELSE chat_lesson_flow(user_input, chat_history, step_index, grader_out,
                                   tutor_out)

\* The oracle outcomes a turn can meet: the grader is called only for an answer
\* to a QUESTION_SA step.
GraderOutcomes(request_type) ==
    IF /\ request_type = "LESSON_FLOW"
       /\ enrolled
       /\ current_step_index \in DOMAIN steps
       /\ steps[current_step_index].type = "QUESTION_SA"
    THEN OracleOutcomes ELSE {NoCall}

\* The answers a turn can carry.
AnswersOf(request_type) ==
    IF /\ request_type = "LESSON_FLOW"
       /\ enrolled
       /\ current_step_index \in DOMAIN steps
       /\ steps[current_step_index].type = "QUESTION_MCQ"
    THEN Answers ELSE PlainAnswers

ChatTurn ==
    \E request_type \in RequestTypes :
        \E user_input \in AnswersOf(request_type),
           grader_out \in GraderOutcomes(request_type),
           tutor_out \in (IF request_type = "QNA" THEN QnaOutcomes ELSE TutorOutcomes) :
            /\ chat(user_input, request_type, grader_out, tutor_out)
            /\ UNCHANGED <<enrollment_vars, requests, author_vars>>

\* --------------------------------------------------------------- /chat/reset

reset_conversation ==
    /\ IF enrolled /\ has_record
       THEN /\ history_json' = <<>>
            /\ current_step_index' = reset_step_index(current_step_index)
       ELSE UNCHANGED <<history_json, current_step_index>>
    /\ response_data' = IF enrolled THEN Put(EmptyDict, "success", TRUE) ELSE EmptyDict
    /\ last_turn' = Turn("reset", "none", IF enrolled THEN 200 ELSE 403,
                         current_step_index, NotGraded, NoPrompt, NoCall)
    /\ UNCHANGED <<steps, raw_script, enrolled, has_record, enrollment_vars, requests,
                   author_vars>>

\* ---------------------------------------------------- /chat/delete_last_turn

\* The index of the last 'user' entry of history, or 0 (Python's -1) if none.
last_user_index(history) ==
    IF \E i \in DOMAIN history : history[i] = "user"
    THEN CHOOSE i \in DOMAIN history :
            history[i] = "user" /\ \A j \in DOMAIN history : history[j] = "user" => j <= i
    ELSE 0

\* A mutation of truncate_history: the last 'user' entry is kept.
truncate_history_keeps_user(history) ==
    SubSeq(history, 1, last_user_index(history))

\* history[:last_user_index], or [] when there is no 'user' entry.
truncate_history(history) ==
    IF last_user_index(history) # 0
    THEN SubSeq(history, 1, last_user_index(history) - 1)
    ELSE <<>>

delete_last_turn ==
    LET status == IF ~enrolled THEN 403
                  ELSE IF ~has_record THEN 404
                  ELSE IF history_json = <<>> THEN 400
                  ELSE 200
    IN  /\ history_json' = IF status = 200 THEN truncate_history(history_json)
                           ELSE history_json
        /\ response_data' =
              IF status = 403 THEN EmptyDict
              ELSE IF status = 200
              THEN Put(Put(EmptyDict, "success", TRUE), "new_history",
                       truncate_history(history_json))
              ELSE Put(EmptyDict, "success", FALSE)
        /\ last_turn' = Turn("delete_last_turn", "none", status, current_step_index,
                             NotGraded, NoPrompt, NoCall)
        /\ UNCHANGED <<steps, raw_script, enrolled, has_record, current_step_index,
                       enrollment_vars, requests, author_vars>>

\* ---------------------------------------------------------- specification

Next ==
    \/ enroll_in_course
    \/ ChatTurn
    \/ reset_conversation
    \/ delete_last_turn

Spec == Init /\ [][Next]_vars

\* The same program on the one-question lessons of every correct_answer.
InitGrade ==
    /\ steps \in McqLessons
    /\ enrolled = FALSE
    /\ has_record = FALSE
    /\ current_step_index = 0
    /\ history_json = <<>>
    /\ response_data = EmptyDict
    /\ last_turn = Turn("none", "none", 200, 0, NotGraded, NoPrompt, NoCall)
    /\ is_creator = FALSE
    /\ InitRest

SpecGrade == InitGrade /\ [][Next]_vars

\* The same program on the lessons of CONTENT steps of every paragraph count.
InitContent ==
    /\ steps \in ContentLessons
    /\ enrolled = FALSE
    /\ has_record = FALSE
    /\ current_step_index = 0
    /\ history_json = <<>>
    /\ response_data = EmptyDict
    /\ last_turn = Turn("none", "none", 200, 0, NotGraded, NoPrompt, NoCall)
    /\ is_creator = FALSE
    /\ InitRest

SpecContent == InitContent /\ [][Next]_vars

\* The same program on lessons of at most one step whose script is any of the
\* raw scripts.
QnaLessons == SeqsUpTo(Steps, 1)

InitQna ==
    /\ steps \in QnaLessons
    /\ raw_script \in RawScripts
    /\ enrolled = FALSE
    /\ has_record = FALSE
    /\ current_step_index = 0
    /\ history_json = <<>>
    /\ response_data = EmptyDict
    /\ last_turn = Turn("none", "none", 200, 0, NotGraded, NoPrompt, NoCall)
    /\ is_creator = FALSE
    /\ last_completed_chapter_number = 0
    /\ completed_at = None
    /\ requests = [p \in Requesters |-> NoRequest(0)]
    /\ course_lessons = <<>>
    /\ is_published = FALSE
    /\ last_edit = NoEdit

SpecQna == InitQna /\ [][Next]_vars

\* An enrolled learner who has not contacted the lesson.
InitProgress ==
    /\ steps \in Lessons
    /\ enrolled = TRUE
    /\ has_record = FALSE
    /\ current_step_index = 0
    /\ history_json = <<>>
    /\ response_data = EmptyDict
    /\ last_turn = Turn("none", "none", 200, 0, NotGraded, NoPrompt, NoCall)
    /\ is_creator = FALSE
    /\ InitRest

\* The answers the turn grades correct, when the step before the cursor is a
\* QUESTION_MCQ step; any answer otherwise.
CorrectAnswersOf ==
    {a \in AnswersOf("LESSON_FLOW") :
        (current_step_index \in DOMAIN steps
            /\ steps[current_step_index].type = "QUESTION_MCQ")
          => grade_mcq(a, steps[current_step_index])}

\* The grader's replies the turn reads as correct, when the step before the
\* cursor is a QUESTION_SA step.
CorrectGraderOutcomes ==
    {g \in GraderOutcomes("LESSON_FLOW") : g # NoCall => grade_sa(g)}

\* A LESSON_FLOW turn of a learner whose answer, if the turn grades one, is
\* graded correct.
CorrectTurn ==
    \E user_input \in CorrectAnswersOf,
       grader_out \in CorrectGraderOutcomes,
       tutor_out \in {Raised, Replied(ReplyPlain)} :
        /\ chat(user_input, "LESSON_FLOW", grader_out, tutor_out)
        /\ UNCHANGED <<enrollment_vars, requests, author_vars>>

NextProgress ==
    \/ delete_last_turn
    \/ CorrectTurn

\* The learner keeps sending requests while a request changes anything, and
\* every request sent is served: LESSON_FLOW turns and, because the transcript
\* of the model holds MaxHist entries, delete_last_turn to keep it short
\* (which leaves the cursor alone, and changes nothing once the transcript is
\* empty, so that from then on the request that is served is a turn).
SpecProgress ==
    /\ InitProgress
    /\ [][NextProgress]_vars
    /\ WF_vars(NextProgress)

\* ===================================================================
\* Two overlapping /chat requests of one learner on one lesson
\* ===================================================================

\* The replies the overlapping requests meet.
GraderReplies == {Replied(ReplyCorrect), Replied(ReplyIncorrect)}

\* The request has read the ChatHistory row: chat from its first line to
\* "1. Check if we need to grade a previous answer" (the row exists, so
\* nothing is created).
chat_load(p, request_type, user_input) ==
    /\ requests[p].pc = "idle"
    /\ enrolled
    /\ has_record
    /\ requests' = [requests EXCEPT ![p] =
          [pc           |-> "loaded",
           request_type |-> request_type,
           user_input   |-> user_input,
           step_index   |-> current_step_index,
           chat_history |-> IF Truthy(user_input)
                            THEN Append(history_json, "user") ELSE history_json,
           next_step    |-> 0,
           stale        |-> FALSE,
           origin       |-> requests[p].origin]]
    /\ UNCHANGED <<learner_vars, enrollment_vars, author_vars>>

\* The rest of the handler, on what the request read: the oracle calls, the
\* assignments to the row and the commit.  next_step is the cursor the request
\* answered with; stale says that the stored cursor was no longer the one the
\* request had read.
chat_store(p, grader_out, tutor_out) ==
    LET r == requests[p]
    IN  /\ r.pc = "loaded"
        /\ IF r.request_type = "QNA"
           THEN chat_qna(r.user_input, r.chat_history, r.step_index, tutor_out)
           ELSE chat_lesson_flow(r.user_input, r.chat_history, r.step_index, grader_out,
                                 tutor_out)
        /\ requests' = [requests EXCEPT ![p] =
              [r EXCEPT !.pc        = "done",
                        !.next_step = Get(response_data', "next_step", r.step_index),
                        !.stale     = (current_step_index # r.step_index)]]
        /\ UNCHANGED <<enrollment_vars, author_vars>>

\* A request arrives.
ChatLoad ==
    \E p \in Requesters, request_type \in RequestTypes, user_input \in PlainAnswers :
        chat_load(p, request_type, user_input)

\* A request in flight completes.
ChatStore ==
    \E p \in Requesters, grader_out \in GraderReplies :
        chat_store(p, grader_out, Replied(ReplyPlain))

\* An enrolled learner whose ChatHistory row holds any cursor of the lesson and
\* an empty transcript (as after delete_last_turn), and no request in flight.
InitConc ==
    /\ steps \in Lessons
    /\ raw_script = ScriptA
    /\ enrolled = TRUE
    /\ has_record = TRUE
    /\ current_step_index \in 0..Len(steps)
    /\ history_json = <<>>
    /\ response_data = EmptyDict
    /\ last_turn = Turn("none", "none", 200, 0, NotGraded, NoPrompt, NoCall)
    /\ is_creator = FALSE
    /\ last_completed_chapter_number = 0
    /\ completed_at = None
    /\ requests = [p \in Requesters |-> NoRequest(current_step_index)]
    /\ course_lessons = <<>>
    /\ is_published = FALSE
    /\ last_edit = NoEdit

NextConc ==
    \/ ChatLoad
    \/ ChatStore

SpecConc == InitConc /\ [][NextConc]_vars

\* ===================================================================
\* The chapter compiler: save_chapter and update_chapter
\* ===================================================================

\* ----------------------------------------------------- the author's inputs

TitleA == <<"A">>

TitleB == <<"B">>

\* request.form: title and script (a title may be left empty).
Forms ==
    {[title |-> TitleA, script |-> ScriptA],
     [title |-> TitleB, script |-> ScriptB],
     [title |-> <<>>, script |-> ScriptB]}

\* url_for('static', filename='uploads/<uuid4><ext>') of the i-th uploaded
\* file: a text no other upload of the request has.
UploadUrl(i) == [j \in 1..i |-> "u"]

\* media_urls after the upload loop, for n files with a filename.
UploadUrls(n) == [i \in 1..n |-> UploadUrl(i)]

\* The numbers of files a submission carries: none, fewer than the lesson has
\* MEDIA steps, as many.
UploadCounts == {0, 1, 2}

\* -------------------------------------------------- the parser's replies

\* A media_url the oracle made up, against PARSER_PROMPT's "Do NOT include a
\* filename or URL".
OracleUrl == <<"h">>

MediaStep == [type |-> "MEDIA", alt_text |-> AltCat]

MediaStepWithOracleUrl == [type |-> "MEDIA", alt_text |-> AltCat, media_url |-> OracleUrl]

\* A QUESTION_SA step as the oracle writes it: keywords as one string.
SaStepRaw ==
    [type |-> "QUESTION_SA", question |-> "q",
     keywords |-> [json |-> "str", text |-> <<"k", ",", " ", "j">>, items |-> <<>>]]

\* The 'steps' lists of the oracle's JSON documents.
ParsedStepLists ==
    {<<>>, <<MediaStepWithOracleUrl>>, <<ContentStep, MediaStep, MediaStep>>, <<SaStepRaw>>}

\* The pieces of a reply text: an opening or closing code fence, a line break,
\* prose, or the text of a JSON value.
FenceJson == [tok |-> "fence_json", value |-> EmptyDict]

Fence == [tok |-> "fence", value |-> EmptyDict]

Newline == [tok |-> "\n", value |-> EmptyDict]

Prose == [tok |-> "prose", value |-> EmptyDict]

JsonText(v) == [tok |-> "json", value |-> v]

\* JSON values: a list, or an object with the given members.
JsonList == [json |-> "list", members |-> EmptyDict]

JsonObject(d) == [json |-> "object", members |-> d]

\* What generate_content(PARSER_PROMPT + script) does: it raises, or replies
\* with prose, with a JSON list, with an object without 'steps', or with an
\* object with 'steps', bare or inside a code fence.
ParserOutcomes ==
    {Raised,
     Replied(<<Prose>>),
     Replied(<<JsonText(JsonList)>>),
     Replied(<<JsonText(JsonObject(Put(EmptyDict, "error", <<"e">>)))>>),
     Replied(<<FenceJson, Newline,
               JsonText(JsonObject(Put(EmptyDict, "steps", <<MediaStepWithOracleUrl>>))),
               Newline, Fence>>)}
    \cup {Replied(<<JsonText(JsonObject(Put(EmptyDict, "steps", l)))>>) : l \in ParsedStepLists}

\* ------------------------------------------------------ parse_lesson_script

RECURSIVE StripLeft(_)
\* str.lstrip() on the pieces of a text
StripLeft(text) ==
    IF text # <<>> /\ Head(text) = Newline THEN StripLeft(Tail(text)) ELSE text

RECURSIVE StripRight(_)
\* str.rstrip() on the pieces of a text
StripRight(text) ==
    IF text # <<>> /\ text[Len(text)] = Newline
    THEN StripRight(SubSeq(text, 1, Len(text) - 1)) ELSE text

\* response.text.strip(), the two replace() calls that remove the code
\* fences, and strip() again
cleaned_response(text) ==
    LET stripped  == StripRight(StripLeft(text))
        no_json   == SelectSeq(stripped, LAMBDA t : t # FenceJson)
        no_fence  == SelectSeq(no_json, LAMBDA t : t # Fence)
    IN  StripRight(StripLeft(no_fence))

\* json.loads raises unless the text is the text of one JSON value.
json_loads_raises(text) == ~(Len(text) = 1 /\ text[1].tok = "json")

\* json.loads(text), when it does not raise
json_loads(text) == text[1].value

RECURSIVE Split(_, _)
\* s.split(sep), for a one-character sep
Split(s, sep) ==
    IF Positions(s, sep) = {} THEN <<s>>
    ELSE LET i == Min(Positions(s, sep))
         IN  <<SubSeq(s, 1, i - 1)>> \o Split(SubSeq(s, i + 1, Len(s)), sep)

\* The keywords of a QUESTION_SA step as a list of strings.
normalize_keywords(kw) ==
    IF kw.json = "str"
    THEN LET parts == Split(kw.text, ",") IN [i \in DOMAIN parts |-> Strip(parts[i])]
    ELSE kw.items

\* The loop of parse_lesson_script over the steps.
normalize_steps(ss) ==
    [i \in DOMAIN ss |->
        IF ss[i].type = "QUESTION_SA" /\ "keywords" \in DOMAIN ss[i]
        THEN [ss[i] EXCEPT !.keywords = normalize_keywords(ss[i].keywords)]
        ELSE ss[i]]

\* parse_lesson_script returned None.
NoParse == [is_none |-> TRUE, data |-> EmptyDict]

\* parse_lesson_script: the decoded object with its steps normalised, or None
\* when the call or the decoding raised (a list has no .get) or the object has
\* no 'steps'.
parse_lesson_script(out) ==
    IF out.kind = "raise" THEN NoParse
    ELSE LET text == cleaned_response(out.text)
         IN  IF json_loads_raises(text) THEN NoParse
             ELSE LET parsed_json == json_loads(text)
                  IN  IF parsed_json.json # "object" THEN NoParse
                      ELSE IF "steps" \notin DOMAIN parsed_json.members THEN NoParse
                      ELSE [is_none |-> FALSE,
                            data    |-> Put(parsed_json.members, "steps",
                                            normalize_steps(parsed_json.members["steps"]))]

\* "if not parsed_data"
not_parsed(parsed_data) == parsed_data.is_none \/ parsed_data.data = EmptyDict

\* ------------------------------------------------------- the media loop

RECURSIVE assign_media(_, _)
\* for step in steps: a MEDIA step takes the next media_url; the loop breaks at
\* the first MEDIA step for which none is left.
assign_media(ss, media_urls) ==
    IF ss = <<>> THEN <<>>
    ELSE IF Head(ss).type = "MEDIA"
    THEN IF media_urls = <<>> THEN ss
         ELSE <<Put(Head(ss), "media_url", Head(media_urls))>>
              \o assign_media(Tail(ss), Tail(media_urls))
    ELSE <<Head(ss)>> \o assign_media(Tail(ss), media_urls)

\* ------------------------------------------------------------ the handlers

\* The observation of a submission: result is "saved", "compile_failed" or
\* "missing_field"; lesson is the row the submission is about (0: none);
\* media_urls and parsed are the URLs and the steps a submission that compiled
\* put together.
Edit(op, result, lesson, form, media_urls, parsed) ==
    [op |-> op, result |-> result, lesson |-> lesson, title |-> form.title,
     script |-> form.script, media_urls |-> media_urls, parsed |-> parsed]

\* last_chapter.chapter_number + 1, or 1 for the first chapter
new_chapter_number ==
    IF course_lessons = <<>> THEN 1
    ELSE 1 + CHOOSE n \in {course_lessons[i].chapter_number : i \in DOMAIN course_lessons} :
                \A i \in DOMAIN course_lessons : course_lessons[i].chapter_number <= n

\* save_chapter, by the course's creator, with n uploaded files.
save_chapter(form, n, out) ==
    LET parsed_data == parse_lesson_script(out)
        media_urls  == UploadUrls(n)
    IN  /\ IF ~Truthy(form.title) \/ ~Truthy(form.script)
           THEN /\ last_edit' = Edit("save_chapter", "missing_field", 0, form, <<>>, <<>>)
                /\ UNCHANGED course_lessons
           ELSE IF not_parsed(parsed_data)
           THEN /\ last_edit' = Edit("save_chapter", "compile_failed", 0, form, <<>>, <<>>)
                /\ UNCHANGED course_lessons
           ELSE /\ course_lessons' = Append(course_lessons,
                      [title          |-> form.title,
                       raw_script     |-> form.script,
                       steps          |-> assign_media(parsed_data.data["steps"], media_urls),
                       chapter_number |-> new_chapter_number])
                /\ last_edit' = Edit("save_chapter", "saved", Len(course_lessons) + 1, form,
                                     media_urls, parsed_data.data["steps"])
        /\ UNCHANGED <<learner_vars, enrollment_vars, requests, is_published>>

\* A mutation of request_end: what the handler assigned is stored without a commit.
request_end_flushes(row, session_row, committed) == session_row

\* The row in the database when the request ends: the session's row if
\* db.session.commit() ran, and the row as it was if the handler returned
\* without it (the session is dropped with the request).
request_end(row, session_row, committed) == IF committed THEN session_row ELSE row

\* update_chapter of the k-th chapter, by the course's creator, with n uploaded
\* files.
update_chapter(k, form, n, out) ==
    LET lesson      == [course_lessons[k] EXCEPT !.title = form.title,
                                                 !.raw_script = form.script]
        media_urls  == UploadUrls(n)
        parsed_data == parse_lesson_script(out)
        compiled    == ~not_parsed(parsed_data)
        updated     == IF compiled
                       THEN [lesson EXCEPT !.steps =
                                assign_media(parsed_data.data["steps"], media_urls)]
                       ELSE lesson
    IN  /\ course_lessons' =
              [course_lessons EXCEPT ![k] = request_end(course_lessons[k], updated, compiled)]
        /\ last_edit' = Edit("update_chapter",
                             IF compiled THEN "saved" ELSE "compile_failed", k, form,
                             IF compiled THEN media_urls ELSE <<>>,
                             IF compiled THEN parsed_data.data["steps"] ELSE <<>>)
        /\ UNCHANGED <<learner_vars, enrollment_vars, requests, is_published>>

SaveChapter ==
    \E form \in Forms, n \in UploadCounts, out \in ParserOutcomes :
        /\ save_chapter(form, n, out)
        /\ Len(course_lessons') <= MaxLessons

UpdateChapter ==
    \E k \in DOMAIN course_lessons, form \in Forms, n \in UploadCounts,
       out \in ParserOutcomes :
        update_chapter(k, form, n, out)

\* A course without chapters; no learner.
InitAuthor ==
    /\ steps = <<>>
    /\ enrolled = FALSE
    /\ has_record = FALSE
    /\ current_step_index = 0
    /\ history_json = <<>>
    /\ response_data = EmptyDict
    /\ last_turn = Turn("none", "none", 200, 0, NotGraded, NoPrompt, NoCall)
    /\ is_creator = TRUE
    /\ InitRest

NextAuthor ==
    \/ SaveChapter
    \/ UpdateChapter

SpecAuthor == InitAuthor /\ [][NextAuthor]_vars

\* ===================================================================
\* The course's structure: chapters added, deleted and reordered, and the
\* course published and withdrawn
\* ===================================================================

\* The observation of a request that is no submission of a script.
CourseEdit(op, result, lesson) ==
    [NoEdit EXCEPT !.op = op, !.result = result, !.lesson = lesson]

\* delete_chapter of the k-th row, by the course's creator: the row is deleted
\* and every chapter of the course with a greater chapter_number moves down
\* by one.
delete_chapter(k) ==
    LET deleted_chapter_number == course_lessons[k].chapter_number
        remaining == [i \in 1..(Len(course_lessons) - 1) |->
                         IF i < k THEN course_lessons[i] ELSE course_lessons[i + 1]]
    IN  /\ course_lessons' =
              [i \in DOMAIN remaining |->
                  IF remaining[i].chapter_number > deleted_chapter_number
                  THEN [remaining[i] EXCEPT !.chapter_number = @ - 1]
                  ELSE remaining[i]]
        /\ last_edit' = CourseEdit("delete_chapter", "saved", k)
        /\ UNCHANGED <<learner_vars, enrollment_vars, requests, is_published>>

\* An id in request.json['order'] that is no lesson of the course (Lesson.query.get
\* finds nothing, or a lesson of another course).
NoLesson == 0

\* The loop of reorder_chapters: the chapter_number of row k after it.  A row
\* the list names gets the place of its last mention, counted from 1; a row
\* the list does not name keeps its number.
reordered_chapter_number(k, ordered_ids) ==
    LET mentions == {i \in DOMAIN ordered_ids : ordered_ids[i] = k}
    IN  IF mentions = {} THEN course_lessons[k].chapter_number
        ELSE CHOOSE i \in mentions : \A j \in mentions : j <= i

\* reorder_chapters, by the course's creator; a lesson's id is its row.
reorder_chapters(ordered_ids) ==
    /\ course_lessons' =
          [k \in DOMAIN course_lessons |->
              [course_lessons[k] EXCEPT
                  !.chapter_number = reordered_chapter_number(k, ordered_ids)]]
    /\ last_edit' = CourseEdit("reorder_chapters", "saved", 0)
    /\ UNCHANGED <<learner_vars, enrollment_vars, requests, is_published>>

\* toggle_publish_course, by the course's creator: refused with "You must add
\* at least one chapter to publish a course." while the course has no lesson.
toggle_publish_course ==
    /\ IF course_lessons = <<>>
       THEN /\ last_edit' = CourseEdit("toggle_publish_course", "refused", 0)
            /\ UNCHANGED is_published
       ELSE /\ is_published' = ~is_published
            /\ last_edit' = CourseEdit("toggle_publish_course", "saved", 0)
    /\ UNCHANGED <<learner_vars, enrollment_vars, requests, course_lessons>>

\* request.form.get('publish_status'): the two values of the form's select,
\* or no value.
PublishStatuses == {<<"public">>, <<"private">>, None}

\* update_publish_status, by the course's creator.
update_publish_status(status) ==
    /\ is_published' = (status = <<"public">>)
    /\ last_edit' = CourseEdit("update_publish_status", "saved", 0)
    /\ UNCHANGED <<learner_vars, enrollment_vars, requests, course_lessons>>

\* The parser's replies where the course's structure is followed: a document
\* without steps and one with a CONTENT step.
CourseOutcomes ==
    {Replied(<<JsonText(JsonObject(Put(EmptyDict, "steps", l)))>>) :
        l \in {<<>>, <<ContentStep>>}}

\* The form of every submission there.
CourseForm == [title |-> TitleA, script |-> ScriptA]

AddChapter ==
    \E out \in CourseOutcomes :
        /\ save_chapter(CourseForm, 0, out)
        /\ Len(course_lessons') <= MaxChapters

EditChapter ==
    \E k \in DOMAIN course_lessons, out \in CourseOutcomes :
        update_chapter(k, CourseForm, 0, out)

DeleteChapter ==
    \E k \in DOMAIN course_lessons : delete_chapter(k)

\* The lists a reorder request can carry: the rows of the course and ids of
\* no lesson of it, in any order, with gaps and repetitions.
ReorderChapters ==
    \E ordered_ids \in SeqsUpTo(DOMAIN course_lessons \cup {NoLesson}, MaxChapters) :
        reorder_chapters(ordered_ids)

UpdatePublishStatus ==
    \E status \in PublishStatuses : update_publish_status(status)

NextCourse ==
    \/ AddChapter
    \/ EditChapter
    \/ DeleteChapter
    \/ ReorderChapters
    \/ toggle_publish_course
    \/ UpdatePublishStatus

\* A course without chapters that is not published; no learner.
SpecCourse == InitAuthor /\ [][NextCourse]_vars

\* ===================================================================
\* The claims
\* ===================================================================

\* The last request was a LESSON_FLOW turn of an enrolled learner.
LessonFlowTurn ==
    /\ last_turn.op = "chat"
    /\ last_turn.request_type = "LESSON_FLOW"
    /\ last_turn.status # 403

\* The last request was a QNA turn of an enrolled learner.
QnaTurn ==
    /\ last_turn.op = "chat"
    /\ last_turn.request_type = "QNA"
    /\ last_turn.status # 403

\* The indices of the lesson's question steps.
QuestionIndices == {q \in 0..(Len(steps) - 1) : is_question(StepAt(q))}

\* The keys of a response the learner sees as a message.
VisibleKeys == {"tutor_text", "feedback", "question", "media_url"}

\* ---- C1
\* C1: whatever the last request was (a LESSON_FLOW turn, a QNA turn, a reset,
\* a step-back), if it took the stored cursor from at most q+1 to beyond q+1
\* for a question step q, then it was a LESSON_FLOW turn that graded the answer
\* to step q and found it CORRECT.
C1_PassesOnlyWhenGradedCorrect ==
    \A q \in QuestionIndices :
        (last_turn.before <= q + 1 /\ current_step_index > q + 1)
            => /\ LessonFlowTurn
               /\ last_turn.graded.step = q
               /\ last_turn.graded.verdict = "CORRECT"

\* C1's case: a turn has just moved the cursor past a question step.
C1_Witness ==
    \E q \in QuestionIndices :
        /\ last_turn.before = q + 1
        /\ current_step_index = q + 2
        /\ last_turn.graded.step = q

\* ---- C2
\* C2: a turn that grades the answer to question q INCORRECT returns a hint and
\* stores the cursor q, and if the next request is a LESSON_FLOW turn, that turn
\* presents question q again.
C2_ReasksTheQuestion ==
    [][(LessonFlowTurn /\ last_turn.graded.verdict = "INCORRECT")
          => /\ "tutor_text" \in DOMAIN response_data
             /\ current_step_index = last_turn.graded.step
             /\ (/\ last_turn' # last_turn
                 /\ last_turn'.op = "chat"
                 /\ last_turn'.request_type = "LESSON_FLOW")
                   => /\ "question" \in DOMAIN response_data'
                      /\ response_data'["question"] = StepAt(last_turn.graded.step)]_vars

\* ---- C3
\* C3: in every reachable state 0 <= step_index <= len(steps).
C3_CursorInRange == current_step_index \in 0..Len(steps)

\* ---- C4
\* C4: a LESSON_FLOW turn that finds the cursor in the terminal state
\* (step_index >= len(steps)) succeeds, returns the completion message with the
\* lesson-end flag, and leaves the stored cursor as it was.
C4_TerminalTurnIsIdempotent ==
    (LessonFlowTurn /\ last_turn.before >= Len(steps))
        => /\ last_turn.status = 200
           /\ Get(response_data, "is_lesson_end", FALSE) = TRUE
           /\ Get(response_data, "tutor_text", None) = LessonEndText
           /\ current_step_index = last_turn.before

\* ---- C5
\* The last request was a LESSON_FLOW turn that processed the CONTENT step the
\* cursor was on (any answer it had to grade first was correct).
ContentTurn ==
    /\ LessonFlowTurn
    /\ last_turn.status = 200
    /\ last_turn.graded.verdict # "INCORRECT"
    /\ last_turn.before < Len(steps)
    /\ StepAt(last_turn.before).type = "CONTENT"

Trimmed(s) ==
    LET keep == {i \in DOMAIN s : s[i] \notin Whitespace}
    IN  IF keep = {} THEN <<>>
        ELSE SubSeq(s, Min(keep), CHOOSE i \in keep : \A j \in keep : j <= i)

\* Case folding of ASCII text: every capital letter becomes its small letter.
Folded(s) ==
    [i \in DOMAIN s |->
        IF \E k \in DOMAIN UpperLetters : UpperLetters[k] = s[i]
        THEN LowerLetters[CHOOSE k \in DOMAIN UpperLetters : UpperLetters[k] = s[i]]
        ELSE s[i]]

\* The text of an answer: a missing answer reads as the empty text.
AnswerText(a) == IF a = None THEN <<>> ELSE a

\* The last request was a LESSON_FLOW turn that graded an answer to a
\* QUESTION_MCQ step.
McqGraded ==
    /\ LessonFlowTurn
    /\ last_turn.graded.step >= 0
    /\ StepAt(last_turn.graded.step).type = "QUESTION_MCQ"

\* C6 as stated: every answer, an empty or missing one too, is graded CORRECT
\* iff trimmed and case-folded it equals the trimmed and case-folded
\* correct_answer.
C6_McqCorrectIffEqual ==
    McqGraded
        => (last_turn.graded.verdict = "CORRECT"
               <=> Folded(Trimmed(AnswerText(last_turn.graded.answer)))
                     = Folded(Trimmed(Get(StepAt(last_turn.graded.step),
                                          "correct_answer", <<>>))))

\* C6 as amended: an empty or missing answer is graded INCORRECT; any other
\* answer is graded CORRECT iff trimmed and case-folded it equals the trimmed
\* and case-folded correct_answer (the empty text when the step has none).
C6_McqCorrectIffNonEmptyAndEqual ==
    McqGraded
        => (last_turn.graded.verdict = "CORRECT"
               <=> /\ last_turn.graded.answer \notin {None, <<>>}
                   /\ Folded(Trimmed(last_turn.graded.answer))
                        = Folded(Trimmed(Get(StepAt(last_turn.graded.step),
                                             "correct_answer", <<>>))))

\* C6's case: " B " is graded CORRECT against the correct_answer " b".
C6_Witness ==
    /\ McqGraded
    /\ last_turn.graded.answer = <<" ", "B", " ">>
    /\ Get(StepAt(last_turn.graded.step), "correct_answer", <<>>) = <<" ", "b">>
    /\ last_turn.graded.verdict = "CORRECT"

\* ---- C7
\* The last request was a LESSON_FLOW turn that graded an answer to a
\* QUESTION_SA step.
SaGraded ==
    /\ LessonFlowTurn
    /\ last_turn.graded.step >= 0
    /\ StepAt(last_turn.graded.step).type = "QUESTION_SA"

\* C7: a short answer is graded CORRECT only when the oracle's reply is the word
\* CORRECT (in any case, whitespace aside); every other reply, INCORRECT among
\* them, is graded INCORRECT.
C7_OnlyTheAffirmativeWordPasses ==
    (SaGraded /\ last_turn.graded.verdict = "CORRECT")
        => /\ last_turn.graded.oracle.kind = "text"
           /\ Folded(Trimmed(last_turn.graded.oracle.text)) = Folded(CorrectWord)

\* ---- C8
\* The grader's oracle call failed: it raised, or its reply was empty.
GraderFailed ==
    \/ last_turn.graded.oracle.kind = "raise"
    \/ last_turn.graded.oracle.kind = "text" /\ last_turn.graded.oracle.text = <<>>

\* C8: when the oracle call of a QUESTION_SA grading fails, the turn is served,
\* the answer is graded INCORRECT and the cursor is stored on the question step.
C8_GraderFailureIsIncorrect ==
    (SaGraded /\ GraderFailed)
        => /\ last_turn.status = 200
           /\ last_turn.graded.verdict = "INCORRECT"
           /\ current_step_index = last_turn.graded.step
           /\ current_step_index = last_turn.before - 1
           /\ "tutor_text" \in DOMAIN response_data

\* C8's case: a grading whose oracle call raised.
C8_Witness ==
    /\ SaGraded
    /\ last_turn.graded.oracle.kind = "raise"
    /\ current_step_index = last_turn.graded.step

\* ---- C9
\* C9: a QNA turn leaves the stored cursor as it found it, whatever the reply.
C9_QnaKeepsTheCursor ==
    QnaTurn
        => /\ last_turn.status = 200
           /\ current_step_index = last_turn.before
           /\ response_data["next_step"] = last_turn.before

\* C9's case: a QNA turn in the middle of a lesson whose reply was an
\* image-retrieval tag that found the picture.
C9_Witness ==
    /\ QnaTurn
    /\ last_turn.before > 0
    /\ "media_url" \in DOMAIN response_data
    /\ current_step_index = last_turn.before

\* ---- C10
\* The last request was a LESSON_FLOW turn whose current step was a MEDIA step
\* without a media_url.
NullMediaTurn ==
    /\ LessonFlowTurn
    /\ last_turn.status = 200
    /\ last_turn.before < Len(steps)
    /\ StepAt(last_turn.before).type = "MEDIA"
    /\ ~Truthy(Get(StepAt(last_turn.before), "media_url", None))

\* The step before the one the turn found the cursor on is a question.
AfterQuestion ==
    /\ last_turn.before > 0
    /\ is_question(StepAt(last_turn.before - 1))

\* C10 as stated: whatever the preceding step, the turn advances the cursor by
\* one and its response holds no message.
C10_NullMediaIsSkippedSilently ==
    NullMediaTurn
        => /\ current_step_index = last_turn.before + 1
           /\ DOMAIN response_data \cap VisibleKeys = {}

\* C10 as amended: when the preceding step is no question, the turn advances the
\* cursor by one and its response holds next_step alone; when it is a question,
\* the answer is graded first: on CORRECT the cursor advances by one and the
\* response holds the feedback and no other message, on INCORRECT the turn is
\* the hint and the rewind.
C10_NullMediaSkip ==
    NullMediaTurn
        => IF ~AfterQuestion
           THEN /\ current_step_index = last_turn.before + 1
                /\ DOMAIN response_data = {"next_step"}
           ELSE IF last_turn.graded.verdict = "CORRECT"
           THEN /\ current_step_index = last_turn.before + 1
                /\ DOMAIN response_data = {"next_step", "feedback"}
           ELSE /\ last_turn.graded.verdict = "INCORRECT"
                /\ current_step_index = last_turn.before - 1
                /\ DOMAIN response_data = {"next_step", "tutor_text"}

\* C10's case: the skip of a MEDIA step that follows a step that is no question.
C10_Witness ==
    /\ NullMediaTurn
    /\ last_turn.before > 0
    /\ ~AfterQuestion
    /\ current_step_index = last_turn.before + 1

\* ---- C11
\* The last request was a reset that was served.
ResetDone == last_turn.op = "reset" /\ last_turn.status = 200

\* The keys of the response to the first LESSON_FLOW turn on the lesson.
FirstTurnKeys ==
    IF steps = <<>> THEN {"is_lesson_end", "tutor_text", "next_step"}
    ELSE IF StepAt(0).type = "CONTENT" THEN {"tutor_text", "next_step"}
    ELSE IF StepAt(0).type = "MEDIA"
    THEN IF Truthy(Get(StepAt(0), "media_url", None))
         THEN {"media_url", "tutor_text", "next_step"}
         ELSE {"next_step"}
    ELSE {"question", "tutor_text", "next_step"}

\* C11: after a reset that was served the stored cursor is 0 and the stored
\* transcript is empty; a reset that follows a reset changes nothing stored;
\* and a LESSON_FLOW turn that follows a reset does what the first turn of a
\* learner without a ChatHistory row does: it starts from cursor 0, grades
\* nothing, answers with the keys of the first step's response and stores the
\* same cursor.
C11_ResetRestartsTheLesson ==
    /\ [](ResetDone => (current_step_index = 0 /\ history_json = <<>>))
    /\ [][(ResetDone /\ last_turn'.op = "reset")
            => UNCHANGED <<current_step_index, history_json, has_record, steps, enrolled>>]_vars
    /\ [][(/\ enrolled
           /\ ResetDone \/ ~has_record
           /\ last_turn' # last_turn
           /\ last_turn'.op = "chat"
           /\ last_turn'.request_type = "LESSON_FLOW")
            => /\ last_turn'.status = 200
               /\ last_turn'.before = 0
               /\ last_turn'.graded = NotGraded
               /\ DOMAIN response_data' = FirstTurnKeys
               /\ current_step_index' = 1
               /\ response_data'["next_step"] = 1]_vars

\* C11's case: a learner who had moved on in the lesson has just been reset.
C11_Witness ==
    /\ ResetDone
    /\ has_record
    /\ last_turn.before > 0
    /\ current_step_index = 0

\* ---- C12
\* C12: a step-back that was served stores the cursor one step before where it
\* found it, and nothing when it found the cursor at 0.
C12_StepBackRewindsTheCursor ==
    (last_turn.op = "delete_last_turn" /\ last_turn.status = 200)
        => current_step_index =
              IF last_turn.before > 0 THEN last_turn.before - 1 ELSE 0

\* ---- C13
\* C13: a dialogue turn is served iff the caller is enrolled or is the course's
\* creator, and a turn that is refused stores nothing.
C13_ServedIffEnrolledOrCreator ==
    [][(last_turn' # last_turn /\ last_turn'.op = "chat")
          => /\ (last_turn'.status # 403) <=> (enrolled \/ is_creator)
             /\ (last_turn'.status = 403)
                   => UNCHANGED <<has_record, current_step_index, history_json>>]_vars

\* ---- C14
\* The last request was a LESSON_FLOW turn that was served the completion
\* message of the chapter.
TerminalTurn ==
    /\ LessonFlowTurn
    /\ last_turn.status = 200
    /\ last_turn.before >= Len(steps)

\* C14: once a LESSON_FLOW turn has found the cursor in the chapter's terminal
\* state, last_completed_chapter_number is at least the chapter's number, and
\* it never decreases.
C14_TerminalTurnRecordsTheChapter ==
    /\ [](TerminalTurn => last_completed_chapter_number >= chapter_number)
    /\ [][last_completed_chapter_number' >= last_completed_chapter_number]_vars

\* ---- C15
\* C15: once a LESSON_FLOW turn has found the cursor in the terminal state of
\* the course's last chapter, completed_at is set, and a set completed_at
\* never changes.
C15_TerminalTurnStampsCompletion ==
    /\ [](TerminalTurn => completed_at # None)
    /\ [][completed_at # None => completed_at' = completed_at]_vars

\* ---- C16
\* C16: a submission (save_chapter or update_chapter) whose script does not
\* compile leaves the course's Lesson rows exactly as they were: no row is
\* added, and no row's title, raw script or steps change.
C16_CompileFailureStoresNothing ==
    [][last_edit'.result = "compile_failed" => course_lessons' = course_lessons]_vars

\* C16's case: an edit that gave the chapter another title and another script
\* did not compile, and the row still has the title and the script it had.
C16_Witness ==
    /\ last_edit.op = "update_chapter"
    /\ last_edit.result = "compile_failed"
    /\ course_lessons[last_edit.lesson].title # last_edit.title
    /\ course_lessons[last_edit.lesson].raw_script # last_edit.script

\* ---- C17
\* The turn's call for tutor text failed: it raised, or the reply was empty.
TutorFailed ==
    /\ last_turn.op = "chat"
    /\ \/ last_turn.tutor.kind = "raise"
       \/ last_turn.tutor.kind = "text" /\ last_turn.tutor.text = <<>>

\* C17: a turn whose call for tutor text failed is served (status 200), its
\* tutor text is the fallback sentence of that failure, and it stores the
\* cursor it answers with, as a turn whose call succeeded does.
C17_OracleFailureDegradesToFallback ==
    TutorFailed
        => /\ last_turn.status = 200
           /\ Get(response_data, "tutor_text", None) =
                 IF last_turn.tutor.kind = "raise" THEN FallbackError ELSE FallbackEmpty
           /\ current_step_index = response_data["next_step"]

\* C17's case: a turn whose call for tutor text failed was served a fallback
\* sentence.
C17_Witness ==
    /\ TutorFailed
    /\ last_turn.status = 200
    /\ Get(response_data, "tutor_text", None) \in {FallbackError, FallbackEmpty}

\* ---- C18
\* Both requests have completed.
BothDone == \A p \in Requesters : requests[p].pc = "done"

\* The stored cursor when the two requests were issued.
Origin == requests[1].origin

\* The 'user' entries of the stored transcript.
UserEntries == {i \in DOMAIN history_json : history_json[i] = "user"}

\* C18: two LESSON_FLOW turns issued at cursor c, where neither has an answer
\* to grade and both find a step to present (steps c and c+1 exist, steps c-1
\* and c are no questions), leave what the two turns leave when one runs after
\* the other: the cursor c + 2, and a transcript with the input of both.
C18_ConcurrentTurnsSerialise ==
    (/\ BothDone
     /\ \A p \in Requesters : requests[p].request_type = "LESSON_FLOW"
     /\ Origin + 2 <= Len(steps)
     /\ Origin = 0 \/ ~is_question(StepAt(Origin - 1))
     /\ ~is_question(StepAt(Origin)))
        => /\ current_step_index = Origin + 2
           /\ Cardinality(UserEntries) =
                 Cardinality({p \in Requesters : Truthy(requests[p].user_input)})

MediaIndices(ss) == {i \in DOMAIN ss : ss[i].type = "MEDIA"}

\* C20: after a submission that compiled, the i-th MEDIA step of the stored
\* lesson has the i-th uploaded file's URL, and a MEDIA step beyond the uploads
\* has no media_url, whatever the oracle wrote (the compiler knows one media
\* type, the image).
C20_MediaUrlsComeFromUploads ==
    last_edit.result = "saved"
        => LET ss == course_lessons[last_edit.lesson].steps
           IN  \A i \in MediaIndices(ss) :
                  LET rank == Cardinality({j \in MediaIndices(ss) : j <= i})
                  IN  Get(ss[i], "media_url", None) =
                         IF rank <= Len(last_edit.media_urls)
                         THEN last_edit.media_urls[rank] ELSE None

\* ---- C21
\* C21: an edit of a chapter that compiled and carried no file leaves every
\* MEDIA step of the new steps whose alt_text is the alt_text of a MEDIA step
\* of the old steps with the media_url of such an old step.
C21_EditKeepsMediaUrlsByAltText ==
    [][(/\ last_edit'.op = "update_chapter"
        /\ last_edit'.result = "saved"
        /\ last_edit'.media_urls = <<>>)
          => LET old == course_lessons[last_edit'.lesson].steps
                 new == course_lessons'[last_edit'.lesson].steps
             IN  \A i \in MediaIndices(new) :
                    LET same == {j \in MediaIndices(old) :
                                    Get(old[j], "alt_text", None)
                                       = Get(new[i], "alt_text", None)}
                    IN  same # {}
                           => \E j \in same :
                                 Get(new[i], "media_url", None)
                                    = Get(old[j], "media_url", None)]_vars

\* ---- C22
\* The script has no paragraph that is not empty: it is empty, or it holds
\* nothing but white space.
NoParagraphs(script) == \A i \in DOMAIN script : script[i] \in Whitespace

\* C22: a QNA turn on a lesson whose raw script has no non-empty paragraph is
\* served without a call to the text-generation oracle: it sends no prompt,
\* and its answer is a fixed text.
C22_EmptyScriptQnaMakesNoOracleCall ==
    (QnaTurn /\ NoParagraphs(raw_script))
        => /\ last_turn.status = 200
           /\ last_turn.tutor = NoCall
           /\ last_turn.prompt = NoPrompt

\* ---- C23
\* C23: no request changes the stored steps of a lesson of a published course
\* (a request that leaves the course's rows in place leaves the steps of every
\* row as they were), so a cursor stored for the lesson keeps pointing at the
\* step it pointed at.
C23_PublishedStepsNeverChange ==
    [][(is_published /\ Len(course_lessons') = Len(course_lessons))
          => \A k \in DOMAIN course_lessons :
                course_lessons'[k].steps = course_lessons[k].steps]_vars

\* ---- C27
\* The chapter numbers of the course's lessons.
ChapterNumbers == {course_lessons[k].chapter_number : k \in DOMAIN course_lessons}

\* C27: in every state chapters added, deleted and reordered one request after
\* the other lead to, the chapter numbers of the course's n lessons are
\* pairwise distinct and are the numbers 1..n.
C27_ChapterNumbersAreOneToN ==
    /\ Cardinality(ChapterNumbers) = Len(course_lessons)
    /\ ChapterNumbers = 1..Len(course_lessons)

\* ---- C28
\* C28: in every reachable state a published course has at least one chapter.
C28_PublishedCourseHasAChapter ==
    is_published => course_lessons # <<>>

\* ---- C24
\* The cursor the last request left is the one it found, moved by d.
CursorMovedBy(d) == current_step_index = last_turn.before + d

\* C24: every LESSON_FLOW turn moves the stored cursor by +1 or by -1, and by
\* -1 only when the step before the cursor is a question whose answer the
\* turn graded INCORRECT; and a request that changes the stored cursor is a
\* LESSON_FLOW turn or a reset, which stores 0.
C24_TurnsMoveTheCursorByOne ==
    /\ [](LessonFlowTurn
            => /\ CursorMovedBy(1) \/ CursorMovedBy(-1)
               /\ CursorMovedBy(-1)
                     => /\ last_turn.before - 1 \in QuestionIndices
                        /\ last_turn.graded.step = last_turn.before - 1
                        /\ last_turn.graded.verdict = "INCORRECT")
    /\ [][current_step_index' # current_step_index
            => \/ /\ last_turn'.op = "chat"
                  /\ last_turn'.request_type = "LESSON_FLOW"
               \/ /\ last_turn'.op = "reset"
                  /\ current_step_index' = 0]_vars

\* ---- C26
\* The entries of a transcript before its last 'user' entry; the empty
\* transcript when it has none.
BeforeLastUser(h) ==
    LET users == {i \in DOMAIN h : h[i] = "user"}
    IN  IF users = {} THEN <<>>
        ELSE [i \in 1..((CHOOSE u \in users : \A v \in users : v <= u) - 1) |-> h[i]]

\* C26: a step-back of an enrolled learner whose record holds a transcript that
\* is not empty stores the transcript's entries before its last 'user' entry
\* (none if it has no such entry) and returns what it stored; on an empty
\* transcript or without a record it answers with an error (400, 404) and
\* leaves everything stored as it was.
C26_StepBackTruncatesTheTranscript ==
    [][(enrolled /\ last_turn'.op = "delete_last_turn")
          => IF has_record /\ history_json # <<>>
             THEN /\ last_turn'.status = 200
                  /\ history_json' = BeforeLastUser(history_json)
                  /\ response_data'["new_history"] = history_json'
                  /\ response_data'["success"] = TRUE
             ELSE /\ last_turn'.status = IF has_record THEN 400 ELSE 404
                  /\ response_data'["success"] = FALSE
                  /\ UNCHANGED <<has_record, history_json, current_step_index,
                                 last_completed_chapter_number, completed_at>>]_vars

\* C26's case: a step-back has just cut a transcript behind its first entries:
\* what is left is what it returned, and it does not end with the learner's
\* input.
C26_Witness ==
    /\ last_turn.op = "delete_last_turn"
    /\ last_turn.status = 200
    /\ history_json # <<>>
    /\ response_data["new_history"] = history_json
    /\ history_json[Len(history_json)] = "model"

\* ---- C25
\* The last request was a LESSON_FLOW turn that found the cursor in the
\* terminal state and was served the completion message.
CompletionReceived ==
    /\ TerminalTurn
    /\ last_turn.before = Len(steps)
    /\ Get(response_data, "is_lesson_end", FALSE) = TRUE
    /\ Get(response_data, "tutor_text", None) = LessonEndText

\* C25: a learner who keeps sending LESSON_FLOW turns and answers every
\* question correctly on the turn after it was presented is eventually served
\* the completion message in the terminal state; every turn until then moves
\* the cursor on by one, so the turn that finds the cursor at len(steps), the
\* turn number len(steps) + 1, is the one that is served the message.
C25_CorrectAnswersReachTheEnd ==
    /\ <>CompletionReceived
    /\ [][(last_turn'.op = "chat" /\ current_step_index <= Len(steps))
            => /\ last_turn'.status = 200
               /\ last_turn'.before = current_step_index
               /\ current_step_index' = current_step_index + 1]_vars
    /\ []((LessonFlowTurn /\ last_turn.before = Len(steps)) => CompletionReceived)

\* C25's case: the learner of a lesson of MaxSteps steps that ends with a
\* question has answered it correctly and has been served the completion
\* message.
C25_Witness ==
    /\ CompletionReceived
    /\ Len(steps) = MaxSteps
    /\ last_turn.graded.verdict = "CORRECT"
    /\ current_step_index = MaxSteps + 1

====
